---- MODULE Spec2Model ----
(***************************************************************************)
(* chevron-blue: the Mustache renderer of src/chevron_blue/renderer.py as  *)
(* a state machine.  One render call is a frame holding the tag generator, *)
(* the output built so far, a reference to its scope list and its padding; *)
(* nested render calls (list items, partials, the callback a lambda gets)  *)
(* are frames pushed on a call stack.  Python strings are sequences of     *)
(* one-character strings, so that escaping, padding and the rebuilding of  *)
(* tag text are computed character by character.                           *)
(***************************************************************************)
EXTENDS Integers, Sequences, FiniteSets, TLC

\* ------------------------------------------------------------------ bounds
\* longest list bound to a section key in the generated inputs
MaxLen == 2
\* deepest nesting of render calls the model follows (Python's recursion limit)
MaxDepth == 4

\* ------------------------------------------------------- Python values
\* A value is [k |-> kind, v |-> payload]:
\*   none, bool (BOOLEAN), int (Nat), str (characters), list (values),
\*   map (sequence of <<key, value>> in insertion order),
\*   obj ([attrs |-> pairs, truthy |-> BOOLEAN]), fn (a lambda's behaviour)
VNone == [k |-> "none", v |-> <<>>]
VBool(b) == [k |-> "bool", v |-> b]
VInt(n) == [k |-> "int", v |-> n]
VStr(s) == [k |-> "str", v |-> s]
VList(l) == [k |-> "list", v |-> l]
VMap(pairs) == [k |-> "map", v |-> pairs]
VObj(pairs, t) == [k |-> "obj", v |-> [attrs |-> pairs, truthy |-> t]]
VFn(mode, arg) == [k |-> "fn", v |-> [mode |-> mode, arg |-> arg]]

\* bool(value)
Truthy(x) ==
  CASE x.k = "none" -> FALSE
    [] x.k = "bool" -> x.v
    [] x.k = "int" -> x.v # 0
    [] x.k \in {"str", "list", "map"} -> Len(x.v) > 0
    [] x.k = "obj" -> x.v.truthy
    [] OTHER -> TRUE

\* value is True
IsTrue(x) == x.k = "bool" /\ x.v

\* isinstance(value, Callable)
IsCallable(x) == x.k = "fn"

\* isinstance(value, (Sequence, Iterator)) and not isinstance(value, str)
IsSequence(x) == x.k = "list"

RECURSIVE Concat(_)
Concat(ss) == IF ss = <<>> THEN <<>> ELSE Head(ss) \o Concat(Tail(ss))

RECURSIVE Join(_, _)
Join(ss, sep) ==
  IF ss = <<>> THEN <<>>
  ELSE IF Len(ss) = 1 THEN ss[1]
  ELSE ss[1] \o sep \o Join(Tail(ss), sep)

Digits == <<"0", "1", "2", "3", "4", "5", "6", "7", "8", "9">>

RECURSIVE IntStr(_)
IntStr(n) == IF n < 10 THEN <<Digits[n + 1]>> ELSE IntStr(n \div 10) \o <<Digits[(n % 10) + 1]>>

\* repr(value); strings in the data hold no quote and no backslash
RECURSIVE Repr(_)
Repr(x) ==
  CASE x.k = "none" -> <<"N", "o", "n", "e">>
    [] x.k = "bool" -> IF x.v THEN <<"T", "r", "u", "e">> ELSE <<"F", "a", "l", "s", "e">>
    [] x.k = "int" -> IntStr(x.v)
    [] x.k = "str" -> <<"'">> \o x.v \o <<"'">>
    [] x.k = "list" -> <<"[">> \o Join([i \in 1..Len(x.v) |-> Repr(x.v[i])], <<",", " ">>) \o <<"]">>
    [] x.k = "map" ->
         <<"{">> \o Join([i \in 1..Len(x.v) |->
                            <<"'">> \o x.v[i][1] \o <<"'", ":", " ">> \o Repr(x.v[i][2])],
                         <<",", " ">>) \o <<"}">>
    [] x.k = "obj" -> <<"<", "o", "b", "j", ">">>
    [] OTHER -> <<"<", "f", "n", ">">>

\* str(value)
Str(x) == IF x.k = "str" THEN x.v ELSE Repr(x)

\* string.replace(c, r) for a one-character c
RECURSIVE Replace(_, _, _)
Replace(s, c, r) ==
  IF s = <<>> THEN <<>>
  ELSE (IF Head(s) = c THEN r ELSE <<Head(s)>>) \o Replace(Tail(s), c, r)

html_codes == << <<"\"", <<"&", "q", "u", "o", "t", ";">> >>,
                 <<"<", <<"&", "l", "t", ";">> >>,
                 <<">", <<"&", "g", "t", ";">> >> >>

RECURSIVE ReplaceAll(_, _)
ReplaceAll(s, codes) ==
  IF codes = <<>> THEN s
  ELSE ReplaceAll(Replace(s, codes[1][1], codes[1][2]), Tail(codes))

\* a variant that handles & after the characters of html_codes, so that the
\* ampersands of the codes are replaced again
html_escape_ampersand_last(string) ==
  Replace(ReplaceAll(string, html_codes), "&", <<"&", "a", "m", "p", ";">>)
\* & is handled first, then the characters of html_codes in order
_html_escape(string) ==
  ReplaceAll(Replace(string, "&", <<"&", "a", "m", "p", ";">>), html_codes)

\* ------------------------------------------------------- key resolution
Ok(x) == [r |-> "ok", v |-> x]
Exc(name) == [r |-> name, v |-> VNone]

HasKey(pairs, name) == \E i \in 1..Len(pairs) : pairs[i][1] = name
Lookup(pairs, name) ==
  pairs[CHOOSE i \in 1..Len(pairs) :
          pairs[i][1] = name /\ \A j \in 1..(i - 1) : pairs[j][1] # name][2]

\* scope[child] with child a string
GetItem(scope, child) ==
  IF scope.k = "map"
  THEN IF HasKey(scope.v, child) THEN Ok(Lookup(scope.v, child)) ELSE Exc("KeyError")
  ELSE Exc("TypeError")

\* getattr(scope, child); key segments are not names of built-in attributes
GetAttr(scope, child) ==
  IF scope.k = "obj" /\ HasKey(scope.v.attrs, child)
  THEN Ok(Lookup(scope.v.attrs, child))
  ELSE Exc("AttributeError")

IsDigits(s) == s # <<>> /\ \A i \in 1..Len(s) : \E d \in 1..10 : Digits[d] = s[i]
DigitVal(c) == (CHOOSE d \in 1..10 : Digits[d] = c) - 1

RECURSIVE IntOf(_)
IntOf(s) == IF s = <<>> THEN 0 ELSE 10 * IntOf(SubSeq(s, 1, Len(s) - 1)) + DigitVal(s[Len(s)])

\* scope[n] with n a non-negative int
GetIndex(scope, n) ==
  CASE scope.k = "list" -> IF n < Len(scope.v) THEN Ok(scope.v[n + 1]) ELSE Exc("IndexError")
    [] scope.k = "str" -> IF n < Len(scope.v) THEN Ok(VStr(<<scope.v[n + 1]>>)) ELSE Exc("IndexError")
    [] scope.k = "map" -> Exc("KeyError")
    [] OTHER -> Exc("TypeError")

\* the three attempts to move into the scope; the last one runs inside the
\* except clause of the first two, so its TypeError is not handled there
AsList(scope, child, b) ==
  IF b.r = "ok" THEN b
  ELSE IF ~IsDigits(child) THEN Exc("ValueError")
  ELSE GetIndex(scope, IntOf(child))
AsAttr(scope, child, a) ==
  IF a.r # "TypeError" THEN a ELSE AsList(scope, child, GetAttr(scope, child))
MoveInto(scope, child) == AsAttr(scope, child, GetItem(scope, child))

\* key.split(".")
RECURSIVE Split(_, _)
Split(s, acc) ==
  IF s = <<>> THEN <<acc>>
  ELSE IF Head(s) = "." THEN <<acc>> \o Split(Tail(s), <<>>)
  ELSE Split(Tail(s), Append(acc, Head(s)))

\* for key_index, child in enumerate(key.split(".")): move into the scope
RECURSIVE Walk(_, _, _)
Moved(m, segs, i) ==
  IF m.r = "ok" THEN Walk(m.v, segs, i + 1)
  ELSE [r |-> m.r, v |-> VNone, key_index |-> i - 1]
Walk(scope, segs, i) ==
  IF i > Len(segs) THEN [r |-> "ok", v |-> scope, key_index |-> Len(segs) - 1]
  ELSE Moved(MoveInto(scope, segs[i]), segs, i)

CHEVRON_return_scope_when_falsy == <<"_">>

\* except (AttributeError, KeyError, IndexError, ValueError)
Caught == {"AttributeError", "KeyError", "IndexError", "ValueError"}

\* scope in (0, False)
IsZeroOrFalse(x) == (x.k = "int" /\ x.v = 0) \/ (x.k = "bool" /\ ~x.v)

\* for scope in scopes: ...; gives found / missing / an exception that escapes
RECURSIVE ScopeLoop(_, _, _)
\* lines 65-71: m is the marker attribute of the value x the path led to
Marked(x, m, segs, scopes, j) ==
  IF m.r = "ok"
  THEN IF Truthy(m.v) THEN Ok(x) ELSE ScopeLoop(segs, scopes, j + 1)
  ELSE Ok(IF Truthy(x) THEN x ELSE VStr(<<>>))
\* lines 60-78: w is the outcome of the walk into scopes[j]
Walked(w, segs, scopes, j) ==
  IF w.r = "ok"
  THEN IF IsZeroOrFalse(w.v) THEN Ok(w.v)
       ELSE Marked(w.v, GetAttr(w.v, CHEVRON_return_scope_when_falsy), segs, scopes, j)
  ELSE IF w.r \in Caught
  THEN IF w.key_index > 0 THEN [r |-> "missing", v |-> VNone]
       ELSE ScopeLoop(segs, scopes, j + 1)
  ELSE Exc(w.r)
ScopeLoop(segs, scopes, j) ==
  IF j > Len(scopes) THEN [r |-> "missing", v |-> VNone]
  ELSE Walked(Walk(scopes[j], segs, 1), segs, scopes, j)

\* "%s %s %s" % (def_ldel, key, def_rdel)
KeptTag(key, ldel, rdel) == ldel \o <<" ">> \o key \o <<" ">> \o rdel

\* result: [r |-> "ok" or the exception raised, v |-> value, warned |-> a warning was issued]
\* lines 80-94 for a key found in no scope; the other outcomes as they are
Searched(s, k, policy, keep_, ldel, rdel) ==
  CASE s.r = "ok" -> [r |-> "ok", v |-> s.v, warned |-> FALSE]
    [] s.r = "missing" ->
         IF policy = "error" THEN [r |-> "KeyError", v |-> VNone, warned |-> FALSE]
         ELSE [r |-> "ok",
               v |-> IF keep_ THEN VStr(KeptTag(k, ldel, rdel)) ELSE VStr(<<>>),
               warned |-> (policy = "warn")]
    [] OTHER -> [r |-> s.r, v |-> VNone, warned |-> FALSE]
_get_key(k, scopes, policy, keep_, ldel, rdel) ==
  IF k = <<".">> THEN [r |-> "ok", v |-> scopes[1], warned |-> FALSE]
  ELSE Searched(ScopeLoop(Split(k, <<>>), scopes, 1), k, policy, keep_, ldel, rdel)

\* ------------------------------------------------------------ tokenizer
\* A tag is <<kind, key>>; kinds: literal, variable, no escape, section,
\* inverted section, end, partial, comment, set delimiter.  A tokenizer error
\* is the pseudo tag <<"error", line>>, raised when the generator reaches it.
Tag(kind, key) == <<kind, key>>
TLit(text) == Tag("literal", text)
TVar(k) == Tag("variable", k)
TRaw(k) == Tag("no escape", k)
TSec(k) == Tag("section", k)
TInv(k) == Tag("inverted section", k)
TEnd(k) == Tag("end", k)
TPart(k) == Tag("partial", k)
TCom(k) == Tag("comment", k)
TDel(k) == Tag("set delimiter", k)

Dot == <<".">>

IsSpace(c) == c \in {" ", "\t", "\n"}
AllSpace(s) == \A i \in 1..Len(s) : IsSpace(s[i])

\* first index at which p occurs in s, 0 when it does not
Least(hits) == IF hits = {} THEN 0 ELSE CHOOSE i \in hits : \A h \in hits : i <= h
Find(s, p) == Least({i \in 1..(Len(s) - Len(p) + 1) : SubSeq(s, i, i + Len(p) - 1) = p})

RECURSIVE LStrip(_)
LStrip(s) == IF s # <<>> /\ IsSpace(Head(s)) THEN LStrip(Tail(s)) ELSE s

RECURSIVE RStripSpace(_)
RStripSpace(s) ==
  IF s # <<>> /\ IsSpace(s[Len(s)]) THEN RStripSpace(SubSeq(s, 1, Len(s) - 1)) ELSE s

Trim(s) == RStripSpace(LStrip(s))

\* string.rpartition("\n")[2]
RECURSIVE LastLine(_)
LastLine(s) ==
  IF s = <<>> THEN <<>>
  ELSE IF s[Len(s)] = "\n" THEN <<>>
  ELSE Append(LastLine(SubSeq(s, 1, Len(s) - 1)), s[Len(s)])

Newlines(s) == Cardinality({i \in 1..Len(s) : s[i] = "\n"})

TagKind(sigil) ==
  CASE sigil = "!" -> "comment"
    [] sigil = "#" -> "section"
    [] sigil = "^" -> "inverted section"
    [] sigil = "/" -> "end"
    [] sigil = ">" -> "partial"
    [] sigil = "&" -> "no escape"
    [] sigil = "{" -> "no escape"
    [] sigil = "=" -> "set delimiter"
    [] OTHER -> "variable"

Standalone == {"comment", "section", "inverted section", "end", "partial", "set delimiter"}

Lit(s) == IF s = <<>> THEN <<>> ELSE <<Tag("literal", s)>>
ErrTag(line) == <<Tag("error", IntStr(line))>>

\* the new pair of a set-delimiter key "left right"
NewLeft(key) == SubSeq(key, 1, Find(key, <<" ">>) - 1)
NewRight(key) == Trim(SubSeq(key, Find(key, <<" ">>), Len(key)))

\* opens: the open sections [key, line], oldest first; fresh: nothing but
\* whitespace precedes on the current line
RECURSIVE Scan(_, _, _, _, _, _)

\* the tag is emitted after the literal that precedes it; a section opens, an
\* end closes the newest open section, a set delimiter changes the pair
ScanEmit(shown, kind, k, rest, ld, rd, opens, at, line2, alone) ==
  CASE kind = "set delimiter" /\ Find(k, <<" ">>) = 0 -> Lit(shown) \o ErrTag(at)
    [] kind = "end" /\ opens = <<>> -> Lit(shown) \o ErrTag(at)
    [] kind = "end" /\ opens # <<>> /\ opens[Len(opens)].key # k -> Lit(shown) \o ErrTag(at)
    [] kind = "end" /\ opens # <<>> /\ opens[Len(opens)].key = k ->
         Lit(shown) \o <<Tag(kind, k)>>
           \o Scan(rest, ld, rd, SubSeq(opens, 1, Len(opens) - 1), line2, alone)
    [] kind \in {"section", "inverted section"} ->
         Lit(shown) \o <<Tag(kind, k)>>
           \o Scan(rest, ld, rd, Append(opens, [key |-> k, line |-> at]), line2, alone)
    [] kind = "set delimiter" /\ Find(k, <<" ">>) # 0 ->
         Lit(shown) \o <<Tag(kind, k)>> \o Scan(rest, NewLeft(k), NewRight(k), opens, line2, alone)
    [] kind \notin {"set delimiter", "end", "section", "inverted section"} ->
         Lit(shown) \o <<Tag(kind, k)>> \o Scan(rest, ld, rd, opens, line2, alone)

\* a standalone tag takes the whitespace around it and its newline with it
\* (a partial keeps the whitespace on its left: it is its indentation)
ScanAlone(literal, kind, k, after, nl, ld, rd, opens, at, line2, alone) ==
  ScanEmit(IF alone /\ kind # "partial"
           THEN SubSeq(literal, 1, Len(literal) - Len(LastLine(literal)))
           ELSE literal,
           kind, k,
           IF alone THEN (IF nl = 0 THEN <<>> ELSE SubSeq(after, nl + 1, Len(after))) ELSE after,
           ld, rd, opens, at,
           line2 + (IF alone /\ nl # 0 THEN 1 ELSE 0), alone)

ScanLine(literal, kind, k, after, nl, ld, rd, opens, at, line2, fresh) ==
  ScanAlone(literal, kind, k, after, nl, ld, rd, opens, at, line2,
            /\ kind \in Standalone
            /\ IF Newlines(literal) > 0 THEN AllSpace(LastLine(literal))
               ELSE fresh /\ AllSpace(literal)
            /\ AllSpace(IF nl = 0 THEN after ELSE SubSeq(after, 1, nl - 1)))

ScanKey(literal, kind, raw, after, ld, rd, opens, at, fresh) ==
  ScanLine(literal, kind, Trim(raw), after, Find(after, <<"\n">>), ld, rd, opens, at,
           at + Newlines(raw), fresh)

ScanClose(literal, kind, inner, j, n, ld, rd, opens, at, fresh) ==
  IF j = 0 THEN Lit(literal) \o ErrTag(at)
  ELSE ScanKey(literal, kind, SubSeq(inner, 1, j - 1), SubSeq(inner, j + n, Len(inner)),
               ld, rd, opens, at, fresh)

ScanInner(literal, kind, inner, close, ld, rd, opens, at, fresh) ==
  ScanClose(literal, kind, inner, Find(inner, close), Len(close), ld, rd, opens, at, fresh)

ScanKind(literal, body, kind, ld, rd, opens, at, fresh) ==
  ScanInner(literal, kind,
            IF kind = "variable" THEN body ELSE Tail(body),
            CASE kind = "set delimiter" -> <<"=">> \o rd
              [] body # <<>> /\ body[1] = "{" -> <<"}">> \o rd
              [] OTHER -> rd,
            ld, rd, opens, at, fresh)

ScanTag(literal, body, ld, rd, opens, line, fresh) ==
  ScanKind(literal, body, IF body = <<>> THEN "variable" ELSE TagKind(body[1]),
           ld, rd, opens, line + Newlines(literal), fresh)

ScanFrom(i, text, ld, rd, opens, line, fresh) ==
  IF i = 0
  THEN Lit(text) \o (IF opens # <<>> THEN ErrTag(opens[1].line) ELSE <<>>)
  ELSE ScanTag(SubSeq(text, 1, i - 1), SubSeq(text, i + Len(ld), Len(text)),
               ld, rd, opens, line, fresh)

Scan(text, ld, rd, opens, line, fresh) ==
  ScanFrom(Find(text, ld), text, ld, rd, opens, line, fresh)

tokenize(template_, l_del, r_del) == Scan(template_, l_del, r_del, <<>>, 1, TRUE)

\* ------------------------------------------------------------ partials
\* the files under the partials directory: a text, a file whose bytes are not
\* UTF-8 (reading it raises UnicodeDecodeError), a directory (opening it
\* raises IsADirectoryError, an IOError)
Files ==
  << <<<<"d", "/", "q", ".", "m">>, Ok(<<"Q">>)>>,
     <<<<"d", "/", "q">>, Ok(<<"N">>)>>,
     <<<<"d", "/", "u", ".", "m">>, Exc("UnicodeDecodeError")>>,
     <<<<"d", "/", "r", ".", "m">>, Exc("IOError")>> >>

\* path.join(partials_path, name + path_ext)
PartialPath(name, path_, ext) ==
  path_ \o (IF path_[Len(path_)] = "/" THEN <<>> ELSE <<"/">>)
        \o name \o (IF ext # <<>> THEN <<".">> \o ext ELSE <<>>)

\* io.open(partial_path).read(): a file that does not exist raises an IOError
Open(p) == IF HasKey(Files, p) THEN Lookup(Files, p) ELSE Exc("IOError")

\* lines 106-117: except IOError gives "", any other exception escapes
Read(f, p) ==
  IF f.r = "IOError" THEN [r |-> "ok", v |-> <<>>, opened |-> <<p>>]
  ELSE [r |-> f.r, v |-> f.v, opened |-> <<p>>]

\* partials_path is None is modelled as the empty path; the result is the
\* text, or the exception raised, and the paths opened
_get_partial(name, dict, path_, ext) ==
  IF HasKey(dict, name) THEN [r |-> "ok", v |-> Lookup(dict, name), opened |-> <<>>]
  ELSE IF path_ = <<>> THEN [r |-> "ok", v |-> <<>>, opened |-> <<>>]
  ELSE Read(Open(PartialPath(name, path_, ext)), PartialPath(name, path_, ext))

\* ------------------------------------------------------------- the state
VARIABLES
  template,        \* the tag sequence handed to the top-level render
  data,            \* its data scope
  partials_dict, partials_path, partials_ext,
  def_ldel, def_rdel, keep, no_escape, on_missing_key,
  stack,           \* the nested render calls, innermost first
  heap,            \* the scope lists; a frame refers to one by its index
  status,          \* "running", "done" or "failed"
  err,             \* the exception that ended the render
  result,          \* what the top-level render returned
  warnings,        \* number of warnings.warn calls
  g_token_cache,   \* <<text, tags>> pairs
  calls,           \* the text each lambda call received
  opened,          \* the paths _get_partial has opened
  later,           \* the raw template texts of the later render calls of the process
  lookup           \* the last _get_key call: key, scopes and outcome

inputs == <<template, data, partials_dict, partials_path, partials_ext,
            def_ldel, def_rdel, keep, no_escape, on_missing_key, later>>
vars == <<template, data, partials_dict, partials_path, partials_ext,
          def_ldel, def_rdel, keep, no_escape, on_missing_key,
          stack, heap, status, err, result, warnings, g_token_cache, calls, opened, later,
          lookup>>

NoPend == [kind |-> "none", tags |-> <<>>, items |-> <<>>, indented |-> FALSE]
NoErr == [type |-> "", where |-> ""]
NoLookup == [key |-> <<>>, scopes |-> <<>>, r |-> "", v |-> VNone, warned |-> FALSE]

\* a render call: its token generator, output, scope list and padding; pend
\* is the nested call it is waiting for
Frame(tokens, scopes, padding) ==
  [tokens |-> tokens, output |-> <<>>, scopes |-> scopes, padding |-> padding, pend |-> NoPend]

cur == stack[1]
sc == heap[cur.scopes]
tag == Head(cur.tokens)
key == tag[2]
current_scope == sc[1]

AtTag == status = "running" /\ cur.pend.kind = "none" /\ cur.tokens # <<>>
\* a variant without the falsy guard of line 242
Unguarded == AtTag /\ tag[1] \notin {"error", "end"} /\ sc # <<>>
\* the tag is handled by the branches after the falsy guard
Live == AtTag /\ tag[1] \notin {"error", "end"} /\ sc # <<>>
          /\ ~(~Truthy(current_scope) /\ Len(sc) # 1)

Resolved == _get_key(key, sc, on_missing_key, keep, def_ldel, def_rdel)
Seen(res) == [key |-> key, scopes |-> sc, r |-> res.r, v |-> res.v, warned |-> res.warned]
Warned(res) == warnings + (IF res.warned THEN 1 ELSE 0)

Raise(type, where) ==
  /\ status' = "failed"
  /\ err' = [type |-> type, where |-> where]
  /\ UNCHANGED <<inputs, stack, heap, result, warnings, g_token_cache, calls>>

\* replace the running frame, and the scope list it refers to
Step(frame, scopes) ==
  /\ stack' = <<frame>> \o Tail(stack)
  /\ heap' = [heap EXCEPT ![cur.scopes] = scopes]
  /\ UNCHANGED <<inputs, status, err, result, g_token_cache, calls>>

Next1 == [cur EXCEPT !.tokens = Tail(@)]
Emit(text) == [cur EXCEPT !.tokens = Tail(@), !.output = @ \o text]

\* call render: a new frame on top of the caller, which waits in pend
Call(caller, frame, heap2) ==
  IF Len(stack) >= MaxDepth
  THEN /\ status' = "failed"
       /\ err' = [type |-> "RecursionError", where |-> "render"]
       /\ UNCHANGED <<stack, heap>>
  ELSE /\ stack' = <<frame, caller>> \o Tail(stack)
       /\ heap' = heap2
       /\ UNCHANGED <<status, err>>

\* tokens of a raw template text (lines 220-224)
TokensWith(text, l_del, r_del) ==
  IF HasKey(g_token_cache, text) THEN Lookup(g_token_cache, text)
  ELSE tokenize(text, l_del, r_del)
TokensOf(text) == TokensWith(text, def_ldel, def_rdel)

\* ------------------------------------------------------------ the actions
\* the tokenizer raises when the generator is advanced to a malformed tag
TokenizerError ==
  /\ AtTag /\ tag[1] = "error"
  /\ Raise("ChevronError", "tokenize")
  /\ UNCHANGED <<lookup, opened>>

\* line 234: current_scope = scopes[0] on an empty scope list
NoScope ==
  /\ AtTag /\ tag[1] # "error" /\ sc = <<>>
  /\ Raise("IndexError", "render")
  /\ UNCHANGED <<lookup, opened>>

\* lines 237-239
EndTag ==
  /\ AtTag /\ tag[1] = "end" /\ sc # <<>>
  /\ Step(Next1, Tail(sc))
  /\ UNCHANGED <<warnings, lookup, opened>>

\* lines 242-246
Falsy ==
  /\ AtTag /\ tag[1] \notin {"error", "end"} /\ sc # <<>>
  /\ ~Truthy(current_scope) /\ Len(sc) # 1
  /\ Step(Next1, IF tag[1] \in {"section", "inverted section"}
                  THEN <<VBool(FALSE)>> \o sc ELSE sc)
  /\ UNCHANGED <<warnings, lookup, opened>>

\* lines 249-251
Literal ==
  /\ Live /\ tag[1] = "literal"
  /\ Step(Emit(Replace(key, "\n", <<"\n">> \o cur.padding)), sc)
  /\ UNCHANGED <<warnings, lookup, opened>>

\* lines 264-271
Show(res, thing) ==
  /\ Step(Emit(IF no_escape THEN Str(thing) ELSE _html_escape(Str(thing))), sc)
  /\ warnings' = Warned(res)

\* lines 254-271
VariableOf(res) ==
  /\ lookup' = Seen(res)
  /\ IF res.r # "ok" THEN Raise(res.r, "_get_key")
     ELSE IF IsTrue(res.v) /\ key = Dot
     THEN IF Len(sc) < 2 THEN Raise("IndexError", "render") ELSE Show(res, sc[2])
     ELSE Show(res, res.v)
Variable == Live /\ tag[1] = "variable" /\ VariableOf(Resolved) /\ UNCHANGED opened

\* lines 274-286
NoEscapeOf(res) ==
  /\ lookup' = Seen(res)
  /\ IF res.r # "ok" THEN Raise(res.r, "_get_key")
     ELSE /\ Step(Emit(Str(res.v)), sc)
          /\ warnings' = Warned(res)
NoEscape == Live /\ tag[1] = "no escape" /\ NoEscapeOf(Resolved) /\ UNCHANGED opened

\* lines 398-408
InvertedSectionOf(res) ==
  /\ lookup' = Seen(res)
  /\ IF res.r # "ok" THEN Raise(res.r, "_get_key")
     ELSE /\ Step(Next1, <<VBool(~Truthy(res.v))>> \o sc)
          /\ warnings' = Warned(res)
InvertedSection ==
  Live /\ tag[1] = "inverted section" /\ InvertedSectionOf(Resolved) /\ UNCHANGED opened

\* a tag kind no branch handles (comment, set delimiter)
Other ==
  /\ Live
  /\ tag[1] \notin {"literal", "variable", "no escape", "section", "inverted section", "partial"}
  /\ Step(Next1, sc)
  /\ UNCHANGED <<warnings, lookup, opened>>

\* lines 363-372: the tags of a list section, up to the end tag the counter accepts
RECURSIVE Gather(_, _, _, _)
Gather(tokens, k, n, acc) ==
  IF tokens = <<>> THEN [r |-> "ok", tags |-> acc, rest |-> <<>>]
  ELSE IF Head(tokens)[1] = "error" THEN [r |-> "ChevronError", tags |-> acc, rest |-> tokens]
  ELSE IF Head(tokens) = Tag("section", k) THEN Gather(Tail(tokens), k, n + 1, Append(acc, Head(tokens)))
  ELSE IF Head(tokens) = Tag("end", k)
  THEN IF n - 1 < 0 THEN [r |-> "ok", tags |-> acc, rest |-> Tail(tokens)]
       ELSE Gather(Tail(tokens), k, n - 1, Append(acc, Head(tokens)))
  ELSE Gather(Tail(tokens), k, n, Append(acc, Head(tokens)))

\* lines 319-328: the dict from tag type to sigil
Sigils == << <<"commment", <<"!">>>>, <<"section", <<"#">>>>, <<"inverted section", <<"^">>>>,
             <<"end", <<"/">>>>, <<"partial", <<">">>>>, <<"set delimiter", <<"=">>>>,
             <<"no escape", <<"&">>>>, <<"variable", <<>>>> >>

\* lines 312-331: the template text of one tag
TagText(t, ldel, rdel) ==
  CASE t[1] = "literal" -> t[2]
    [] t[1] = "no escape" -> ldel \o <<"&", " ">> \o t[2] \o <<" ">> \o rdel
    [] OTHER -> ldel \o Lookup(Sigils, t[1]) \o <<" ">> \o t[2] \o rdel

\* lines 304-331: the text and the tags of a lambda section, up to the first
\* end tag with the section's key
RECURSIVE Serialize(_, _, _, _)
Serialize(tokens, k, text, tags) ==
  IF tokens = <<>> THEN [r |-> "ok", text |-> text, tags |-> tags, rest |-> <<>>]
  ELSE IF Head(tokens)[1] = "error"
  THEN [r |-> "ChevronError", text |-> text, tags |-> tags, rest |-> tokens]
  ELSE IF Head(tokens) = Tag("end", k)
  THEN [r |-> "ok", text |-> text, tags |-> tags, rest |-> Tail(tokens)]
  ELSE IF Head(tokens)[1] \notin {"literal", "no escape"} /\ ~HasKey(Sigils, Head(tokens)[1])
  THEN [r |-> "KeyError", text |-> text, tags |-> tags, rest |-> tokens]
  ELSE Serialize(Tail(tokens), k, text \o TagText(Head(tokens), def_ldel, def_rdel),
                 Append(tags, Head(tokens)))

\* g_token_cache[text] = tags
Put(cache, text, tags) ==
  IF HasKey(cache, text)
  THEN [i \in 1..Len(cache) |-> IF cache[i][1] = text THEN <<text, tags>> ELSE cache[i]]
  ELSE Append(cache, <<text, tags>>)

\* lines 333-353: s is the serialized body; the lambda fn is called with its
\* text and either returns a constant or what the callback renders
Invoke(fn, s, waiting, callee) ==
  IF s.r # "ok" THEN Raise(s.r, IF s.r = "KeyError" THEN "render" ELSE "tokenize")
  ELSE /\ g_token_cache' = Put(g_token_cache, s.text, s.tags)
       /\ calls' = Append(calls, s.text)
       /\ UNCHANGED <<inputs, result>>
       /\ CASE fn.mode = "const" ->
                 /\ stack' = <<[cur EXCEPT !.tokens = s.rest, !.output = @ \o fn.arg.v]>>
                                \o Tail(stack)
                 /\ UNCHANGED <<heap, status, err>>
            [] fn.mode = "render" -> Call(waiting, [callee EXCEPT !.scopes = cur.scopes], heap)
            \* scopes=data and [data] + scopes or scopes
            [] fn.mode = "renderData" ->
                 IF Truthy(fn.arg)
                 THEN Call(waiting, callee, Append(heap, <<fn.arg>> \o sc))
                 ELSE Call(waiting, [callee EXCEPT !.scopes = cur.scopes], heap)

\* lines 302-353; render(template) finds the text in the cache it was just put in
Lambda(fn, s) ==
  Invoke(fn, s,
         [cur EXCEPT !.tokens = s.rest, !.pend = [NoPend EXCEPT !.kind = "lambda"]],
         Frame(Lookup(Put(g_token_cache, s.text, s.tags), s.text), Len(heap) + 1, cur.padding))

\* lines 357-391
Loop(items, g) ==
  IF g.r # "ok" THEN Raise(g.r, "tokenize")
  ELSE Step([cur EXCEPT !.tokens = g.rest,
                        !.pend = IF items = <<>> THEN NoPend
                                 ELSE [NoPend EXCEPT !.kind = "list", !.tags = g.tags,
                                                     !.items = items]], sc)

\* lines 289-395
SectionOf(res) ==
  /\ lookup' = Seen(res)
  /\ IF res.r # "ok" THEN Raise(res.r, "_get_key")
     ELSE /\ warnings' = Warned(res)
          /\ IF IsCallable(res.v)
             THEN Lambda(res.v.v, Serialize(Tail(cur.tokens), key, <<>>, <<>>))
             ELSE IF IsSequence(res.v)
             THEN Loop(res.v.v, Gather(Tail(cur.tokens), key, 0, <<>>))
             ELSE Step(Next1, <<res.v>> \o sc)
Section == Live /\ tag[1] = "section" /\ SectionOf(Resolved) /\ UNCHANGED opened

\* lines 375-391: render the gathered tags for the next item of the list
ListItem ==
  /\ status = "running" /\ cur.pend.kind = "list"
  /\ Call([cur EXCEPT !.pend.items = Tail(@)],
          Frame(cur.pend.tags, Len(heap) + 1, cur.padding),
          Append(heap, <<Head(cur.pend.items)>> \o sc))
  /\ UNCHANGED <<inputs, result, warnings, g_token_cache, calls, lookup, opened>>

\* lines 416-434: left is what the output holds since its last newline
PartialOf(partial, indented, left) ==
  Call([cur EXCEPT !.tokens = Tail(@),
                   !.pend = [NoPend EXCEPT !.kind = "partial", !.indented = indented]],
       Frame(TokensOf(partial), cur.scopes, cur.padding \o (IF indented THEN left ELSE <<>>)),
       heap)
\* a variant that never takes the left fragment as indentation
NotIndented(partial, left) == PartialOf(partial, FALSE, left)
Indent(partial, left) == PartialOf(partial, left # <<>> /\ AllSpace(left), left)

\* lines 413, 416-434: a partial that cannot be loaded ends the render
Loaded(p, left) ==
  /\ opened' = opened \o p.opened
  /\ IF p.r # "ok" THEN Raise(p.r, "_get_partial") ELSE Indent(p.v, left)

\* lines 411-434
Partial ==
  /\ Live /\ tag[1] = "partial"
  /\ Loaded(_get_partial(key, partials_dict, partials_path, partials_ext), LastLine(cur.output))
  /\ UNCHANGED <<inputs, result, warnings, g_token_cache, calls, lookup>>

\* string.rstrip(" \t")
RECURSIVE RStrip(_)
RStrip(s) ==
  IF s # <<>> /\ s[Len(s)] \in {" ", "\t"} THEN RStrip(SubSeq(s, 1, Len(s) - 1)) ELSE s

\* lines 353, 391, 437-442: the caller takes the output of the call it waited for
Resume(caller, rend) ==
  CASE caller.pend.kind = "list" ->
         [caller EXCEPT !.output = @ \o rend,
                        !.pend = IF caller.pend.items = <<>> THEN NoPend ELSE @]
    [] caller.pend.kind = "partial" ->
         [caller EXCEPT !.output = @ \o (IF caller.pend.indented THEN RStrip(rend) ELSE rend),
                        !.pend = NoPend]
    [] caller.pend.kind \notin {"list", "partial"} ->
         [caller EXCEPT !.output = @ \o rend, !.pend = NoPend]

\* render returns (line 444); a scope list made for the call is dropped
Return ==
  /\ status = "running" /\ cur.pend.kind = "none" /\ cur.tokens = <<>>
  /\ IF Len(stack) = 1
     THEN /\ status' = "done"
          /\ result' = cur.output
          /\ UNCHANGED <<stack, heap>>
     ELSE /\ stack' = <<Resume(stack[2], cur.output)>> \o Tail(Tail(stack))
          /\ heap' = IF cur.scopes # stack[2].scopes THEN SubSeq(heap, 1, Len(heap) - 1) ELSE heap
          /\ UNCHANGED <<status, result>>
  /\ UNCHANGED <<inputs, err, warnings, g_token_cache, calls, lookup, opened>>

\* ------------------------------------------------------------ the inputs
Map1(k1, v1) == VMap(<< <<k1, v1>> >>)
Map2(k1, v1, k2, v2) == VMap(<< <<k1, v1>>, <<k2, v2>> >>)

Defaults ==
  [partials_dict |-> <<>>, partials_path |-> <<>>, partials_ext |-> <<"m">>,
   def_ldel |-> <<"{", "{">>, def_rdel |-> <<"}", "}">>,
   keep |-> FALSE, no_escape |-> FALSE, on_missing_key |-> "ignore"]

Policies == {"ignore", "warn", "error"}

Sc(t, d, o) == [template |-> t, data |-> d, opts |-> o]

\* list sections over scalars
Scalars == {VInt(0), VInt(12), VStr(<<>>), VStr(<<"z">>), VStr(<<"<", "&">>),
            VBool(TRUE), VBool(FALSE)}
Lists == UNION {[1..n -> Scalars] : n \in 0..MaxLen}
ListTemplates ==
  { <<TSec(<<"x">>), TVar(Dot), TEnd(<<"x">>)>>,
    <<TLit(<<"A">>), TSec(<<"x">>), TLit(<<"B">>), TSec(<<"x">>), TVar(Dot), TEnd(<<"x">>),
      TLit(<<"C">>), TEnd(<<"x">>), TLit(<<"D">>)>>,
    <<TLit(<<"A">>), TSec(<<"x">>), TLit(<<"B">>), TInv(<<"x">>), TVar(Dot), TEnd(<<"x">>),
      TLit(<<"C">>), TEnd(<<"x">>), TLit(<<"D">>)>> }
ListScenarios ==
  {Sc(t, Map1(<<"x">>, VList(l)), [Defaults EXCEPT !.no_escape = e]) :
     t \in ListTemplates, l \in Lists, e \in BOOLEAN}

\* a section or an inverted section around a literal, on a key that is
\* absent, falsy or truthy
SectionTemplates ==
  { <<TLit(<<"A">>), TSec(<<"k">>), TLit(<<"L">>), TEnd(<<"k">>), TLit(<<"M">>)>>,
    <<TLit(<<"A">>), TInv(<<"k">>), TLit(<<"L">>), TEnd(<<"k">>), TLit(<<"M">>)>>,
    <<TInv(<<"k">>), TLit(<<"X">>), TVar(Dot), TEnd(<<"k">>)>> }
SectionValues ==
  {VList(<<>>), VBool(FALSE), VStr(<<>>), VInt(0), VNone, VMap(<<>>),
   VStr(<<"t">>), VInt(1), VBool(TRUE), Map1(<<"a">>, VInt(1)), VList(<<VInt(1)>>)}
SectionDatas ==
  {VMap(<<>>), Map1(<<"j">>, VInt(1))} \cup {Map1(<<"k">>, x) : x \in SectionValues}
SectionScenarios ==
  {Sc(t, d, [Defaults EXCEPT !.keep = kp, !.on_missing_key = p]) :
     t \in SectionTemplates, d \in SectionDatas, kp \in BOOLEAN, p \in Policies}

\* the inverted section of each item of a list shows the item
CoercionItems ==
  {VStr(<<"f">>), VInt(7), VBool(TRUE), Map1(<<"c">>, VBool(TRUE)), Map1(<<"c">>, VInt(0)),
   Map1(<<"d">>, VStr(<<"<">>))}
CoercionScenarios ==
  {Sc(<<TSec(<<"o">>), TInv(<<"c">>), TVar(Dot), TEnd(<<"c">>), TEnd(<<"o">>)>>,
      Map1(<<"o">>, VList(l)), [Defaults EXCEPT !.keep = kp]) :
     l \in UNION {[1..n -> CoercionItems] : n \in 1..MaxLen}, kp \in BOOLEAN}

\* a key resolved against the scope stack [inner, data]
Keys == {<<"a">>, <<"a", ".", "b">>, <<"0">>, <<"a", ".", "0">>, <<"b">>}
Inner ==
  {Map1(<<"a">>, Map1(<<"b">>, VStr(<<"i">>))),
   Map1(<<"a">>, Map1(<<"c">>, VStr(<<"i">>))),
   Map1(<<"c">>, VStr(<<"i">>)),
   Map2(<<"a">>, VInt(5), <<"b">>, VNone),
   Map2(<<"a">>, VList(<<VInt(0), VInt(4)>>), <<"0">>, VStr(<<"n">>)),
   VInt(5), VStr(<<"x", "y">>), VBool(TRUE),
   VList(<<Map1(<<"b">>, VStr(<<"l">>))>>),
   VObj(<< <<<<"a">>, VObj(<< <<<<"b">>, VInt(42)>> >>, TRUE)>> >>, TRUE),
   VObj(<< <<<<"a">>, VObj(<< <<CHEVRON_return_scope_when_falsy, VBool(TRUE)>> >>, FALSE)>> >>, TRUE)}
Outer(x) ==
  {Map1(<<"s">>, x),
   VMap(<< <<<<"s">>, x>>, <<<<"a">>, Map1(<<"b">>, VStr(<<"o">>))>>, <<<<"b">>, VInt(0)>> >>)}
KeyTags(k) == {<<TVar(k)>>, <<TRaw(k)>>, <<TSec(k), TLit(<<"L">>), TEnd(k)>>,
               <<TInv(k), TLit(<<"L">>), TEnd(k)>>}
KeyScenarios ==
  {Sc(<<TSec(<<"s">>)>> \o kt \o <<TEnd(<<"s">>)>>, d,
      [Defaults EXCEPT !.keep = kp, !.on_missing_key = p]) :
     kt \in UNION {KeyTags(k) : k \in Keys}, d \in UNION {Outer(x) : x \in Inner},
     kp \in BOOLEAN, p \in Policies}

\* a lambda bound to f, around a body of each kind of tag
LambdaBodies ==
  { <<TLit(<<" ", "x", " ">>)>>, <<TRaw(<<"c">>)>>, <<TVar(<<"v">>)>>,
    <<TSec(<<"s">>), TEnd(<<"s">>)>>, <<TInv(<<"i">>), TLit(<<"n">>), TEnd(<<"i">>)>>,
    <<TPart(<<"p">>)>>, <<TDel(<<"|", " ", "|">>)>>, <<TCom(<<"c">>)>>,
    <<TLit(<<"[">>), TVar(<<"v">>), TLit(<<"]">>), TVar(Dot)>>,
    <<TLit(<<"H">>), TRaw(<<"c">>), TCom(<<"n">>), TVar(<<"v">>)>> }
ExtraDatas ==
  {Map1(<<"v">>, VStr(<<"I">>)), VInt(7), VStr(<<"e">>), VMap(<<>>), VInt(0), VStr(<<>>),
   VBool(FALSE), VList(<<>>)}
Lambdas ==
  {VFn("const", VStr(<<"<", "&", ">">>)), VFn("render", VNone)}
    \cup {VFn("renderData", d) : d \in ExtraDatas}
LambdaData(fn) ==
  VMap(<< <<<<"f">>, fn>>, <<<<"v">>, VStr(<<"V">>)>>, <<<<"c">>, VStr(<<"<">>)>> >>)
LambdaScenarios ==
  {Sc(<<TLit(<<"a">>), TSec(<<"f">>)>> \o b \o <<TEnd(<<"f">>), TLit(<<"z">>)>>,
      LambdaData(fn),
      [Defaults EXCEPT !.partials_dict = << <<<<"p">>, <<"Q", "{", "{", "v", "}", "}">>>> >>]) :
     b \in LambdaBodies, fn \in Lambdas}

\* keys that are not found, with keep, delimiters and partials
KeepTemplates ==
  { <<TVar(<<"x">>), TLit(<<" ">>), TVar(<<"y">>), TRaw(<<"y">>)>>,
    <<TDel(<<"|", " ", "|">>), TVar(<<"y">>), TRaw(<<"x">>)>>,
    <<TVar(<<"x">>), TPart(<<"p">>), TCom(<<"c">>), TVar(<<"m">>)>> }
PartialTexts ==
  { <<"{", "{", "m", "}", "}", "{", "{", "x", "}", "}">>, <<"|", "m", "|">>,
    <<"{", "{", "m">>, <<"{", "{", ">", "q", "}", "}">> }
Delimiters == { <<"{", "{", "}", "}">>, <<"|", "|">> }
KeepScenarios ==
  {Sc(t, Map1(<<"x">>, VInt(1)),
      [Defaults EXCEPT !.partials_dict = << <<<<"p">>, pt>> >>, !.partials_path = <<"d">>,
                       !.def_ldel = SubSeq(dl, 1, Len(dl) \div 2),
                       !.def_rdel = SubSeq(dl, Len(dl) \div 2 + 1, Len(dl)),
                       !.keep = kp, !.on_missing_key = p]) :
     t \in KeepTemplates, pt \in PartialTexts, dl \in Delimiters, kp \in BOOLEAN, p \in Policies}

\* one Variable or Unescaped tag on a value with the characters html escapes
EscapeChars == {"&", "<", ">", "\"", "a"}
EscapeStrings == UNION {[1..n -> EscapeChars] : n \in 0..MaxLen}
EscapeValues ==
  {VStr(e) : e \in EscapeStrings} \cup {VList(<<VStr(<<"<">>), VInt(3)>>), VInt(40), VNone}
EscapeScenarios ==
  {Sc(<<t>>, Map1(<<"v">>, x), [Defaults EXCEPT !.no_escape = ne]) :
     t \in {TVar(<<"v">>), TRaw(<<"v">>)}, x \in EscapeValues, ne \in BOOLEAN}

\* a partial after each kind of left fragment: whitespace, nothing, text
IndentLefts == { <<"\t">>, <<>>, <<"x", " ">>, <<"a", "\n", " ">>, <<" ", "\n">> }
IndentPartials ==
  { << <<<<"p">>, <<"\t", "o", "\n", "\t", "t">>>> >>,
    << <<<<"p">>, <<"a", " ", "\t">>>> >>,
    << <<<<"p">>, <<"a", "\n">>>> >>,
    << <<<<"p">>, <<"f", "\n", "{", "{", "#", "l", "}", "}", "\n", " ", "{", "{", ".", "}", "}",
                   "\n", "{", "{", "/", "l", "}", "}">>>> >>,
    << <<<<"p">>, <<"a", "\n", " ", "{", "{", ">", "q", "}", "}">>>>,
       <<<<"q">>, <<"b", "\n", "c">>>> >>,
    << <<<<"p">>, <<"{", "{", "v", "}", "}", "\n", "b">>>> >> }
IndentDatas ==
  {Map2(<<"l">>, VList(<<VStr(<<"x">>), VStr(<<"y">>)>>), <<"v">>, VStr(v)) :
     v \in { <<"c", "\n", "d">>, <<"c", "d">> }}
IndentScenarios ==
  {Sc(<<TLit(w), TPart(<<"p">>), TLit(<<"E">>)>>, d, [Defaults EXCEPT !.partials_dict = pd]) :
     w \in IndentLefts \ {<<>>}, pd \in IndentPartials, d \in IndentDatas}
    \cup {Sc(<<TPart(<<"p">>), TLit(<<"E">>)>>, d, [Defaults EXCEPT !.partials_dict = pd]) :
             pd \in IndentPartials, d \in IndentDatas}

\* a partial by name, from the table or from the partials directory
LoadNames == { <<"p">>, <<"q">>, <<"n">>, <<"u">>, <<"r">> }
LoadTables ==
  { <<>>, << <<<<"p">>, <<"P">>>> >>, << <<<<"q">>, <<"T">>>>, <<<<"u">>, <<"U">>>> >> }
LoadScenarios ==
  {Sc(<<TLit(<<"<">>), TPart(n), TLit(<<">">>)>>, VMap(<<>>),
      [Defaults EXCEPT !.partials_dict = pd, !.partials_path = pp, !.partials_ext = pe]) :
     n \in LoadNames, pd \in LoadTables, pp \in { <<>>, <<"d">> }, pe \in { <<>>, <<"m">> }}

\* the implicit iterator on the data of the render itself
SelfScenarios ==
  {Sc(<<TLit(<<"a">>), t>>, d, Defaults) :
     t \in {TVar(Dot), TRaw(Dot)},
     d \in {VBool(TRUE), VBool(FALSE), VInt(0), VStr(<<"s">>), VNone}}

\* a lambda bound to f around a section or an inverted section, of the same
\* key or of another one
NestedOpens == {TSec(<<"f">>), TInv(<<"f">>), TSec(<<"s">>), TInv(<<"i">>)}
NestedScenarios ==
  {Sc(<<TLit(<<"a">>), TSec(<<"f">>), TLit(<<"b">>), o, TLit(<<"x">>), TEnd(o[2]),
        TLit(<<"c">>), TEnd(<<"f">>), TLit(<<"z">>)>>,
      LambdaData(fn), Defaults) :
     o \in NestedOpens, fn \in {VFn("const", VStr(<<"R">>)), VFn("render", VNone)}}

\* a section or an inverted section on n around a body with a tag of each kind
\* that acts when the section is shown: keys that are not found, a lambda
\* section, an inverted section, a partial in a file, a section of the same key
SuppressedBody ==
  <<TVar(<<"m">>), TRaw(<<"m">>), TSec(<<"f">>), TLit(<<"x">>), TEnd(<<"f">>),
    TInv(<<"m">>), TLit(<<"y">>), TEnd(<<"m">>), TPart(<<"q">>),
    TSec(<<"n">>), TLit(<<"w">>), TEnd(<<"n">>)>>
SuppressedValues ==
  {VInt(0), VBool(FALSE), VStr(<<>>), VNone, VMap(<<>>), VInt(1), VStr(<<"t">>)}
SuppressedScenarios ==
  {Sc(<<TLit(<<"a">>), o>> \o SuppressedBody \o <<TEnd(<<"n">>), TLit(<<"z">>)>>,
      VMap(<< <<<<"n">>, x>>, <<<<"f">>, VFn("const", VStr(<<"R">>))>> >>),
      [Defaults EXCEPT !.partials_path = <<"d">>, !.on_missing_key = p]) :
     o \in {TSec(<<"n">>), TInv(<<"n">>)}, x \in SuppressedValues, p \in Policies}

\* a partial p that includes itself: inside a section on c, outside of every
\* section, and inside a section on c after an inverted section on c
RecursionTexts ==
  { <<"{", "{", "#", "c", "}", "}", "x", "{", "{", ">", "p", "}", "}", "{", "{", "/", "c", "}", "}">>,
    <<"x", "{", "{", ">", "p", "}", "}">>,
    <<"{", "{", "#", "c", "}", "}", "{", "{", "^", "c", "}", "}", "a", "{", "{", "/", "c", "}", "}", "{", "{", ">", "p", "}", "}", "{", "{", "/", "c", "}", "}">> }
\* values of c: none, falsy, empty, and nestings that bind c again or do not
RecursionDatas ==
  { VMap(<<>>), Map1(<<"c">>, VBool(FALSE)), Map1(<<"c">>, VList(<<>>)),
    Map1(<<"c">>, Map1(<<"c">>, VBool(FALSE))), Map1(<<"c">>, Map1(<<"c">>, VList(<<>>))),
    Map1(<<"c">>, VList(<<Map1(<<"c">>, VInt(0))>>)),
    Map1(<<"c">>, Map1(<<"v">>, VInt(1))), Map1(<<"c">>, VInt(1)) }
RecursionScenarios ==
  {Sc(<<TLit(<<"a">>), TPart(<<"p">>), TLit(<<"z">>)>>, d,
      [Defaults EXCEPT !.partials_dict = << <<<<"p">>, t>> >>]) :
     t \in RecursionTexts, d \in RecursionDatas}

Scenarios ==
  ListScenarios \cup SectionScenarios \cup CoercionScenarios \cup KeyScenarios
    \cup LambdaScenarios \cup KeepScenarios \cup EscapeScenarios \cup IndentScenarios
    \cup LoadScenarios \cup SelfScenarios \cup NestedScenarios
    \cup SuppressedScenarios \cup RecursionScenarios

Init ==
  /\ \E s \in Scenarios :
       /\ template = s.template
       /\ data = s.data
       /\ partials_dict = s.opts.partials_dict
       /\ partials_path = s.opts.partials_path
       /\ partials_ext = s.opts.partials_ext
       /\ def_ldel = s.opts.def_ldel
       /\ def_rdel = s.opts.def_rdel
       /\ keep = s.opts.keep
       /\ no_escape = s.opts.no_escape
       /\ on_missing_key = s.opts.on_missing_key
  \* lines 226-229: output = "", scopes = [data]
  /\ stack = <<Frame(template, 1, <<>>)>>
  /\ heap = <<<<data>>>>
  /\ status = "running" /\ err = NoErr /\ result = <<>> /\ warnings = 0
  /\ g_token_cache = <<>> /\ calls = <<>> /\ lookup = NoLookup /\ opened = <<>>
  /\ later = <<>>

Next ==
  \/ TokenizerError \/ NoScope \/ EndTag \/ Falsy \/ Literal \/ Variable \/ NoEscape
  \/ Section \/ ListItem \/ InvertedSection \/ Partial \/ Other \/ Return

Spec == Init /\ [][Next]_vars

\* ---- several render calls in one process
MaxRenders == 2
\* the text a lambda is given for the body Variable(v), and a text no lambda is given
RawTexts == { <<"{", "{", " ", "v", "}", "}">>, <<"{", "{", "v", "}", "}">> }
\* lines 214-229 of a later call render(text, data, def_ldel=l_del, def_rdel=r_del)
\* with the other options as before: g_token_cache is the module's, the scope
\* list is new
Begin(text, l_del, r_del) ==
  /\ later' = Append(later, text)
  /\ def_ldel' = l_del /\ def_rdel' = r_del
  /\ stack' = <<Frame(TokensWith(text, l_del, r_del), 1, <<>>)>>
  /\ heap' = <<<<data>>>>
  /\ status' = "running" /\ err' = NoErr /\ result' = <<>>
  /\ UNCHANGED <<template, data, partials_dict, partials_path, partials_ext, keep, no_escape,
                 on_missing_key, warnings, g_token_cache, calls, opened, lookup>>
\* the previous render has returned or raised
RenderAgain ==
  /\ status \in {"done", "failed"} /\ Len(later) < MaxRenders - 1
  /\ \E text \in RawTexts, d \in Delimiters :
       Begin(text, SubSeq(d, 1, Len(d) \div 2), SubSeq(d, Len(d) \div 2 + 1, Len(d)))

NextProcess == Next \/ RenderAgain

Process == Init /\ [][NextProcess]_vars

\* ------------------------------------------------------------ properties
IsScalar(x) == x.k \in {"str", "int", "bool"}
\* what a Variable tag shows for a value
Shown(x) == IF no_escape THEN Str(x) ELSE _html_escape(Str(x))

\* the template is Section(k), Variable("."), End(k) and data binds k to a
\* sequence of scalars
ImplicitIterator ==
  /\ Len(template) = 3
  /\ template[1][1] = "section" /\ template[2] = TVar(Dot) /\ template[3] = TEnd(template[1][2])
  /\ data.k = "map" /\ HasKey(data.v, template[1][2])
  /\ Lookup(data.v, template[1][2]).k = "list"
  /\ \A i \in 1..Len(Lookup(data.v, template[1][2]).v) : IsScalar(Lookup(data.v, template[1][2]).v[i])
IteratedList == Lookup(data.v, template[1][2]).v

\* C1: rendering Section(k), Variable("."), End(k) over a sequence of scalars
\* bound to k gives the string forms of its elements, concatenated in order
\* (the empty string for the empty sequence).
C1_ElementsConcatenated ==
  ImplicitIterator =>
    /\ status # "failed"
    /\ status = "done" =>
         result = Concat([i \in 1..Len(IteratedList) |-> Shown(IteratedList[i])])

\* the template is Literal, kind(k), Literal, End(k), Literal over a mapping
PlainSection(kind) ==
  /\ Len(template) = 5 /\ data.k = "map"
  /\ template[1][1] = "literal" /\ template[2][1] = kind /\ template[3][1] = "literal"
  /\ template[4] = TEnd(template[2][2]) /\ template[5][1] = "literal"
\* the top-level mapping has no k, or binds k to a falsy value
FalsyOrAbsent(k) == HasKey(data.v, k) => ~Truthy(Lookup(data.v, k))

\* C2: a section on a key that is falsy or absent contributes the empty
\* string: the tags up to its End are skipped and rendering continues after it.
C2_FalsySectionEmpty ==
  (PlainSection("section") /\ FalsyOrAbsent(template[2][2]) /\ status = "done")
    => result = template[1][2] \o template[5][2]

\* ---- key resolution as the three access forms describe it
\* a scope has a child under a segment: by key, by field, by index
HasChild(scope, seg) ==
  CASE scope.k = "map" -> HasKey(scope.v, seg)
    [] scope.k = "obj" -> HasKey(scope.v.attrs, seg)
    [] scope.k \in {"list", "str"} -> IsDigits(seg) /\ IntOf(seg) < Len(scope.v)
    [] OTHER -> FALSE
ChildOf(scope, seg) ==
  CASE scope.k = "map" -> Lookup(scope.v, seg)
    [] scope.k = "obj" -> Lookup(scope.v.attrs, seg)
    [] scope.k = "list" -> scope.v[IntOf(seg) + 1]
    [] scope.k = "str" -> VStr(<<scope.v[IntOf(seg) + 1]>>)
RECURSIVE Descend(_, _)
Descend(scope, segs) ==
  IF segs = <<>> THEN [found |-> TRUE, v |-> scope]
  ELSE IF HasChild(scope, Head(segs)) THEN Descend(ChildOf(scope, Head(segs)), Tail(segs))
  ELSE [found |-> FALSE, v |-> VNone]
\* the first scope, innermost first, that has the first segment decides
RECURSIVE Resolution(_, _)
Resolution(segs, scopes) ==
  IF scopes = <<>> THEN [found |-> FALSE, v |-> VNone]
  ELSE IF HasChild(Head(scopes), Head(segs)) THEN Descend(Head(scopes), segs)
  ELSE Resolution(segs, Tail(scopes))
\* what a lookup hands back for a value found: 0 and False as they are, a
\* value with the falsy marker as it is, any other falsy value as ""
Coerced(x) ==
  IF IsZeroOrFalse(x) \/ Truthy(x) THEN x
  ELSE IF x.k = "obj" /\ HasKey(x.v.attrs, CHEVRON_return_scope_when_falsy) THEN x
  ELSE VStr(<<>>)
Unresolved(l) ==
  IF on_missing_key = "error" THEN l.r = "KeyError"
  ELSE /\ l.r = "ok"
       /\ l.v = VStr(IF keep THEN KeptTag(l.key, def_ldel, def_rdel) ELSE <<>>)
Agreed(l, e) == IF e.found THEN l.r = "ok" /\ l.v = Coerced(e.v) ELSE Unresolved(l)

\* C3: a dotted key is resolved segment by segment (by key, then by field,
\* then by index); the scopes are tried innermost first while the first
\* segment fails, and a failure of a later segment makes the key missing.
C3_DottedKeyResolution ==
  (lookup.r # "" /\ lookup.key # Dot)
    => Agreed(lookup, Resolution(Split(lookup.key, <<>>), lookup.scopes))

\* C4: a key that cannot be resolved gives "" under ignore and warn (warn
\* issues one diagnostic) and KeyError under error, and KeyError under error
\* is the only error key resolution raises.
C4_MissingKeyPolicy ==
  /\ (status = "failed" /\ err.where = "_get_key")
       => (on_missing_key = "error" /\ err.type = "KeyError")
  /\ (lookup.r # "" /\ lookup.key # Dot
        /\ ~Resolution(Split(lookup.key, <<>>), lookup.scopes).found)
       => IF on_missing_key = "error" THEN lookup.r = "KeyError"
          ELSE /\ lookup.r = "ok"
               /\ ~keep => lookup.v = VStr(<<>>)
               /\ lookup.warned = (on_missing_key = "warn")

\* ---- lambda sections: Literal, Section(f) ... End(f), Literal with f a lambda
\* and no End(f) in the body
LambdaCase ==
  /\ Len(template) >= 4 /\ data.k = "map"
  /\ template[1][1] = "literal" /\ template[2][1] = "section"
  /\ template[Len(template) - 1] = TEnd(template[2][2]) /\ template[Len(template)][1] = "literal"
  /\ \A i \in 3..(Len(template) - 2) : template[i] # TEnd(template[2][2])
  /\ HasKey(data.v, template[2][2]) /\ IsCallable(Lookup(data.v, template[2][2]))
Body == SubSeq(template, 3, Len(template) - 2)
TheLambda == Lookup(data.v, template[2][2]).v
Sigil(kind) ==
  CASE kind = "variable" -> <<>>
    [] kind = "section" -> <<"#">>
    [] kind = "inverted section" -> <<"^">>
    [] kind = "end" -> <<"/">>
    [] kind = "partial" -> <<">">>
    [] kind = "comment" -> <<"!">>
    [] kind = "set delimiter" -> <<"=">>
Written(t) ==
  CASE t[1] = "literal" -> t[2]
    [] t[1] = "no escape" -> def_ldel \o <<"&", " ">> \o t[2] \o <<" ">> \o def_rdel
    [] OTHER -> def_ldel \o Sigil(t[1]) \o <<" ">> \o t[2] \o def_rdel
LambdaInput == Concat([i \in 1..Len(Body) |-> Written(Body[i])])

\* C5: a lambda section calls its lambda once, with the body tags written
\* back as template text (literals verbatim, every other kind of tag with its
\* sigil and key inside the delimiters), and appends what the lambda returns
\* as it is.
C5_LambdaInput ==
  (LambdaCase /\ status \in {"done", "failed"})
    => /\ calls = <<LambdaInput>>
       /\ (status = "done" /\ TheLambda.mode = "const")
            => result = template[1][2] \o TheLambda.arg.v \o template[Len(template)][2]

\* a lambda section has just called its lambda, which called render
CallbackStep ==
  /\ Live /\ tag[1] = "section"
  /\ lookup'.r = "ok" /\ IsCallable(lookup'.v)
  /\ Len(stack') = Len(stack) + 1

\* C6: the render callback of a lambda section renders against the scope stack
\* of the section, with the extra data in front of it when extra data is given.
C6_CallbackScopes ==
  [][CallbackStep =>
       heap'[stack'[1].scopes] =
         IF lookup'.v.v.mode = "renderData" THEN <<lookup'.v.v.arg>> \o sc ELSE sc]_vars

\* the tags up to the End that closes the section just opened, and those after it
RECURSIVE Matching(_, _, _)
Matching(tokens, n, acc) ==
  IF tokens = <<>> THEN [tags |-> acc, rest |-> <<>>]
  ELSE IF Head(tokens)[1] \in {"section", "inverted section"}
  THEN Matching(Tail(tokens), n + 1, Append(acc, Head(tokens)))
  ELSE IF Head(tokens)[1] = "end" /\ n = 0 THEN [tags |-> acc, rest |-> Tail(tokens)]
  ELSE Matching(Tail(tokens), IF Head(tokens)[1] = "end" THEN n - 1 ELSE n,
                Append(acc, Head(tokens)))
ListStep ==
  /\ Live /\ tag[1] = "section"
  /\ lookup'.r = "ok" /\ IsSequence(lookup'.v)
  /\ status' = "running"
Collected(m, items) ==
  /\ stack'[1].tokens = m.rest
  /\ items # <<>> => (stack'[1].pend.tags = m.tags /\ stack'[1].pend.items = items)

\* C7: a list section renders for each element the tags up to the End that
\* matches it in the nesting of the template; inner sections and inverted
\* sections with the same key stay inside.
C7_ListSectionBody ==
  [][ListStep => Collected(Matching(Tail(cur.tokens), 0, <<>>), lookup'.v.v)]_vars

\* ---- inverted sections
\* Section(o), InvertedSection(c), Variable("."), End(c), End(o) over a
\* mapping that binds o to a sequence of truthy items
CoercionCase ==
  /\ Len(template) = 5 /\ data.k = "map"
  /\ template[1][1] = "section" /\ template[2][1] = "inverted section"
  /\ template[2][2] # template[1][2]
  /\ template[3] = TVar(Dot) /\ template[4] = TEnd(template[2][2])
  /\ template[5] = TEnd(template[1][2])
  /\ HasKey(data.v, template[1][2]) /\ IsSequence(Lookup(data.v, template[1][2]))
  /\ ~HasKey(data.v, template[2][2])
  /\ \A i \in 1..Len(Lookup(data.v, template[1][2]).v) :
       Truthy(Lookup(data.v, template[1][2]).v[i])
\* what the inverted section on c shows of one item
ItemShown(item, c) ==
  IF item.k = "map" /\ HasKey(item.v, c) /\ Truthy(Lookup(item.v, c)) THEN <<>>
  ELSE Shown(item)
\* InvertedSection(k), Literal, Variable("."), End(k) over a mapping
SelfCase ==
  /\ Len(template) = 4 /\ data.k = "map"
  /\ template[1][1] = "inverted section" /\ template[2][1] = "literal"
  /\ template[3] = TVar(Dot) /\ template[4] = TEnd(template[1][2])

\* C8: the body of an inverted section is rendered exactly when its key is
\* falsy or absent, and Variable(".") in the body shows the enclosing scope.
C8_InvertedSection ==
  /\ (PlainSection("inverted section") /\ status = "done")
       => result = template[1][2]
                     \o (IF FalsyOrAbsent(template[2][2]) THEN template[3][2] ELSE <<>>)
                     \o template[5][2]
  /\ (CoercionCase /\ status = "done")
       => result = Concat([i \in 1..Len(Lookup(data.v, template[1][2]).v) |->
                             ItemShown(Lookup(data.v, template[1][2]).v[i], template[2][2])])
  /\ (SelfCase /\ status = "done")
       => result = IF FalsyOrAbsent(template[1][2]) THEN template[2][2] \o Shown(data)
                   ELSE <<>>

\* ---- keep: templates of literals, variables, comments, delimiter changes
\* and partials over a mapping, with keys of one segment
FlatKinds == {"literal", "variable", "no escape", "comment", "set delimiter", "partial"}
FlatCase ==
  /\ data.k = "map"
  /\ \A i \in 1..Len(template) : template[i][1] \in FlatKinds
\* what a Variable or Unescaped tag shows under the delimiters active at it
Display(t, ld, rd) ==
  IF HasKey(data.v, t[2])
  THEN IF t[1] = "variable" THEN Shown(Coerced(Lookup(data.v, t[2])))
       ELSE Str(Coerced(Lookup(data.v, t[2])))
  ELSE IF keep THEN ld \o <<" ">> \o t[2] \o <<" ">> \o rd
  ELSE <<>>
RECURSIVE Flat(_, _, _)
Flat(tags, ld, rd) ==
  IF tags = <<>> THEN <<>>
  ELSE CASE Head(tags)[1] = "literal" -> Head(tags)[2] \o Flat(Tail(tags), ld, rd)
         [] Head(tags)[1] \in {"variable", "no escape"} ->
              Display(Head(tags), ld, rd) \o Flat(Tail(tags), ld, rd)
         [] Head(tags)[1] = "set delimiter" ->
              Flat(Tail(tags), NewLeft(Head(tags)[2]), NewRight(Head(tags)[2]))
         [] Head(tags)[1] = "partial" ->
              Flat(tokenize(_get_partial(Head(tags)[2], partials_dict, partials_path,
                                         partials_ext).v, def_ldel, def_rdel),
                   def_ldel, def_rdel) \o Flat(Tail(tags), ld, rd)
         [] OTHER -> Flat(Tail(tags), ld, rd)

\* C9: with keep, a Variable or Unescaped tag on a key found in no scope
\* renders as left, space, key, space, right with the delimiters active at the
\* tag, also in a partial; without keep it renders as the empty string; a tag
\* whose key is found is not affected.
C9_KeptTagText ==
  (FlatCase /\ status = "done") => result = Flat(template, def_ldel, def_rdel)

\* ---- escaping
EscapedChar(c) ==
  CASE c = "&" -> <<"&", "a", "m", "p", ";">>
    [] c = "<" -> <<"&", "l", "t", ";">>
    [] c = ">" -> <<"&", "g", "t", ";">>
    [] c = "\"" -> <<"&", "q", "u", "o", "t", ";">>
    [] OTHER -> <<c>>
\* every character of s escaped once
EscapedOnce(s) == Concat([i \in 1..Len(s) |-> EscapedChar(s[i])])
\* a Variable or Unescaped tag has just shown a value
ShowStep ==
  /\ Live /\ tag[1] \in {"variable", "no escape"}
  /\ lookup'.r = "ok" /\ status' = "running"
\* the value the tag shows: what the key resolved to, or for Variable(".") on
\* the frame of an inverted section the scope behind that frame
Displayed(x) == IF tag[1] = "variable" /\ key = Dot /\ IsTrue(x) THEN sc[2] ELSE x
Appended(text) ==
  stack'[1].output =
    cur.output \o (IF tag[1] = "variable" /\ ~no_escape THEN EscapedOnce(text) ELSE text)

\* C10: a Variable tag appends the display string of its value with each of
\* the characters &, <, > and " escaped once, or unchanged when no_escape is
\* set; an Unescaped tag appends the display string unchanged.
C10_Escaping == [][ShowStep => Appended(Str(Displayed(lookup'.v)))]_vars
\* the render of Variable(v) over {v: "<&"} is done
C10_Witness ==
  /\ status = "done" /\ ~no_escape
  /\ template = <<TVar(<<"v">>)>> /\ data = Map1(<<"v">>, VStr(<<"<", "&">>))
  /\ result = <<"&", "l", "t", ";", "&", "a", "m", "p", ";">>

\* ---- partial indentation
\* the render of a partial is about to return to the render that holds its tag
PartialReturn ==
  /\ status = "running" /\ Len(stack) >= 2
  /\ cur.pend.kind = "none" /\ cur.tokens = <<>>
  /\ stack[2].pend.kind = "partial"
\* what the output of the caller holds since its last newline
RECURSIVE SinceNewline(_)
SinceNewline(s) ==
  IF s = <<>> \/ s[Len(s)] = "\n" THEN <<>>
  ELSE Append(SinceNewline(SubSeq(s, 1, Len(s) - 1)), s[Len(s)])
IsIndentation(w) == w # <<>> /\ \A i \in 1..Len(w) : w[i] \in {" ", "\t"}
\* text without the spaces and tabs at its end
RECURSIVE Stripped(_)
Stripped(text) ==
  IF text # <<>> /\ text[Len(text)] \in {" ", "\t"}
  THEN Stripped(SubSeq(text, 1, Len(text) - 1)) ELSE text
\* every newline of text that starts a line is followed by pad
LinesPrefixed(text, pad) ==
  \A i \in 1..(Len(text) - 1) :
    text[i] = "\n" => (i + Len(pad) <= Len(text) /\ SubSeq(text, i + 1, i + Len(pad)) = pad)
\* the caller takes text as the output of the partial
Returned(text) == stack'[1].output = stack[2].output \o text
\* a value that can show a newline
RECURSIVE HasNewline(_)
HasNewline(x) ==
  CASE x.k = "str" -> \E i \in 1..Len(x.v) : x.v[i] = "\n"
    [] x.k = "list" -> \E i \in 1..Len(x.v) : HasNewline(x.v[i])
    [] x.k = "map" -> \E i \in 1..Len(x.v) : HasNewline(x.v[i][2])
    [] x.k = "obj" -> \E i \in 1..Len(x.v.attrs) : HasNewline(x.v.attrs[i][2])
    [] x.k = "fn" -> HasNewline(x.v.arg)
    [] OTHER -> FALSE
\* the padding of the partial, and what the caller takes of its output
Padded(left, strict) ==
  IF IsIndentation(left)
  THEN /\ cur.padding = stack[2].padding \o left
       /\ Returned(Stripped(cur.output))
       /\ strict => LinesPrefixed(Stripped(cur.output), cur.padding)
  ELSE /\ cur.padding = stack[2].padding
       /\ Returned(cur.output)

LoadCase ==
  /\ Len(template) = 3
  /\ template[1][1] = "literal" /\ template[2][1] = "partial" /\ template[3][1] = "literal"
  /\ ~IsIndentation(SinceNewline(template[1][2]))
  /\ \A i \in 1..Len(partials_dict) : Find(partials_dict[i][2], def_ldel) = 0
InTable == HasKey(partials_dict, template[2][2])
TheFile == PartialPath(template[2][2], partials_path, partials_ext)
\* the content of a file that can be read, the empty text for any other path
FileText(p) ==
  IF HasKey(Files, p) /\ Lookup(Files, p).r = "ok" THEN Lookup(Files, p).v ELSE <<>>
PartialText ==
  IF InTable THEN Lookup(partials_dict, template[2][2])
  ELSE IF partials_path = <<>> THEN <<>>
  ELSE FileText(TheFile)

\* C12: loading a partial never fails: a name of the table gives its text and
\* no file is opened; any other name gives the empty text when there is no
\* partials path (no file is opened), else the content of the file
\* path/name.ext, and the empty text when the file cannot be read.
C12_PartialNeverFails ==
  /\ err.where # "_get_partial"
  /\ (LoadCase /\ status = "done")
       => /\ result = template[1][2] \o PartialText \o template[3][2]
          /\ opened = IF InTable \/ partials_path = <<>> THEN <<>> ELSE <<TheFile>>

\* ---- the scope stack
\* the End tags of tokens that close a section opened before them
RECURSIVE Unmatched(_, _)
Unmatched(tokens, n) ==
  IF tokens = <<>> THEN 0
  ELSE IF Head(tokens)[1] \in {"section", "inverted section"} THEN Unmatched(Tail(tokens), n + 1)
  ELSE IF Head(tokens)[1] = "end"
  THEN IF n = 0 THEN 1 + Unmatched(Tail(tokens), 0) ELSE Unmatched(Tail(tokens), n - 1)
  ELSE Unmatched(Tail(tokens), n)
\* the sections the renders on scope list k have open: opened and pushed
RECURSIVE OpenOn(_, _)
OpenOn(frames, k) ==
  IF frames = <<>> THEN 0
  ELSE (IF Head(frames).scopes = k THEN Unmatched(Head(frames).tokens, 0) ELSE 0)
         + OpenOn(Tail(frames), k)
\* the outermost render on scope list k
FirstOn(k) == CHOOSE i \in 1..Len(stack) :
                stack[i].scopes = k /\ \A j \in (i + 1)..Len(stack) : stack[j].scopes # k
\* the length of scope list k when the first render on it began: the data
\* alone, or one entry in front of the list of the caller
EntryDepth(k) == IF k = 1 THEN 1 ELSE Len(heap[stack[FirstOn(k) + 1].scopes]) + 1

\* C13: during a render the scope stack is never empty, holds its entries on
\* entry plus one entry for each section that is open and was pushed, and no
\* index beyond its length is read; this holds for the list a partial shares
\* with its caller and for the list the callback of a lambda reuses.
C13_ScopeStackDepth ==
  /\ ~(status = "failed" /\ err.type = "IndexError")
  /\ status = "running" =>
       \A i \in 1..Len(stack) :
         /\ heap[stack[i].scopes] # <<>>
         /\ Len(heap[stack[i].scopes])
              = EntryDepth(stack[i].scopes) + OpenOn(stack, stack[i].scopes)

\* ---- the body of a lambda section
\* a lambda section has just called its lambda
LambdaStep ==
  /\ Live /\ tag[1] = "section"
  /\ lookup'.r = "ok" /\ IsCallable(lookup'.v)
  /\ status' = "running"
\* the lambda was given the text of the tags m.tags, and the render that opened
\* the section goes on with the tags m.rest
Consumed(m) ==
  /\ calls' = Append(calls, Concat([i \in 1..Len(m.tags) |-> Written(m.tags[i])]))
  /\ stack'[Len(stack') - Len(stack) + 1].tokens = m.rest

\* C14: a lambda section takes as its body the tags up to the End that matches
\* it in the nesting, also when the body holds a section or an inverted section
\* of the same key, and the render goes on after that End, so no End of the
\* body pops a scope.
C14_LambdaBody ==
  [][LambdaStep => Consumed(Matching(Tail(cur.tokens), 0, <<>>))]_vars

\* ---- the token cache
\* C15: a render of a raw template text uses the tags of tokenizing that text
\* with the delimiters of the call, whatever renders ran before it in the
\* process and whatever lambda sections put into the token cache.
C15_TokensOfText ==
  [][later' # later =>
       stack'[1].tokens = tokenize(later'[Len(later')], def_ldel', def_rdel')]_vars

\* ---- suppressed sections
\* the render is at a tag, the front of its scope stack is falsy and the stack
\* has more than one entry
Suppressed ==
  /\ status = "running" /\ cur.pend.kind = "none" /\ cur.tokens # <<>>
  /\ tag[1] # "error"
  /\ Len(sc) > 1 /\ ~Truthy(sc[1])
\* what the tag does to the scope stack: an End pops, an open pushes False
Marked16 ==
  CASE tag[1] = "end" -> Tail(sc)
    [] tag[1] \in {"section", "inverted section"} -> <<VBool(FALSE)>> \o sc
    [] OTHER -> sc
\* the step resolved no key, raised nothing, warned of nothing, loaded no
\* partial, began no render, called no lambda and appended nothing
Inert ==
  /\ status' = "running" /\ warnings' = warnings /\ lookup' = lookup
  /\ opened' = opened /\ calls' = calls /\ g_token_cache' = g_token_cache
  /\ Len(stack') = Len(stack) /\ Tail(stack') = Tail(stack)
  /\ stack'[1] = [cur EXCEPT !.tokens = Tail(@)]

\* C16: while the front of the scope stack is falsy and the stack has more
\* than one entry, a tag is inert: an open of a section or an inverted section
\* pushes False without resolving its key, an End pops, and no key is resolved,
\* no partial loaded or rendered, no lambda called and nothing appended.
C16_SuppressedInert ==
  [][Suppressed => (Inert /\ heap' = [heap EXCEPT ![cur.scopes] = Marked16])]_vars
\* a suppressed section whose body holds keys that are not found under the
\* policy "error", a lambda section and a partial in a file has been rendered
C16_Witness ==
  /\ status = "done" /\ on_missing_key = "error"
  /\ template = <<TLit(<<"a">>), TSec(<<"n">>)>> \o SuppressedBody
                  \o <<TEnd(<<"n">>), TLit(<<"z">>)>>
  /\ data.v[1][2] = VInt(0)
  /\ result = <<"a", "z">> /\ warnings = 0 /\ calls = <<>> /\ opened = <<>>

\* ---- partials that include themselves
\* Literal, Partial(p), Literal over a table whose p names p again
RecursionCase ==
  /\ Len(template) = 3 /\ template[2] = TPart(<<"p">>)
  /\ template[1][1] = "literal" /\ template[3][1] = "literal"
  /\ HasKey(partials_dict, <<"p">>) /\ data.k = "map"
  /\ \E i \in 1..Len(tokenize(Lookup(partials_dict, <<"p">>), def_ldel, def_rdel)) :
       tokenize(Lookup(partials_dict, <<"p">>), def_ldel, def_rdel)[i] = TPart(<<"p">>)
\* no tag of tokens is Partial(p)
NoSelf(tokens) == \A i \in 1..Len(tokens) : tokens[i] # TPart(<<"p">>)
\* tokens are tags without Partial(p), Section(k), and after the End that
\* matches it tags without Partial(p)
RECURSIVE InsideSection(_, _)
InsideSection(tokens, k) ==
  /\ tokens # <<>>
  /\ IF Head(tokens) = TSec(k) THEN NoSelf(Matching(Tail(tokens), 0, <<>>).rest)
     ELSE Head(tokens) # TPart(<<"p">>) /\ InsideSection(Tail(tokens), k)
\* the value of k in x is absent, falsy or empty
Closed(x, k) ==
  \/ ~HasKey(x.v, k)
  \/ ~Truthy(Lookup(x.v, k))
\* the value of k is absent, falsy or empty after finitely many nestings: every
\* nesting binds k again, down to one that is closed
RECURSIVE Ends(_, _)
Ends(x, k) ==
  \/ Closed(x, k)
  \/ /\ Lookup(x.v, k).k = "map" /\ HasKey(Lookup(x.v, k).v, k) /\ Ends(Lookup(x.v, k), k)
  \/ /\ Lookup(x.v, k).k = "list"
     /\ \A i \in 1..Len(Lookup(x.v, k).v) :
          /\ Lookup(x.v, k).v[i].k = "map" /\ HasKey(Lookup(x.v, k).v[i].v, k)
          /\ Ends(Lookup(x.v, k).v[i], k)
\* Partial(p) comes before every open of a section or an inverted section
RECURSIVE Bare(_)
Bare(tokens) ==
  /\ tokens # <<>>
  /\ \/ Head(tokens) = TPart(<<"p">>)
     \/ Head(tokens)[1] \notin {"section", "inverted section"} /\ Bare(Tail(tokens))
Guarded(tokens) == InsideSection(tokens, <<"c">>) /\ Ends(data, <<"c">>)

\* C17: a render whose self-including partial lies inside a section whose
\* value is falsy, absent or empty after finitely many nestings returns: it
\* never reaches the depth at which the runtime gives up; when the section is
\* closed at once the partial inside it is not rendered again; a self-including
\* partial outside of every section never returns.
C17_GuardedRecursionEnds ==
  RecursionCase =>
    /\ Guarded(tokenize(Lookup(partials_dict, <<"p">>), def_ldel, def_rdel))
         => /\ err.type # "RecursionError"
            /\ Closed(data, <<"c">>) => Len(stack) <= 2
    /\ Bare(tokenize(Lookup(partials_dict, <<"p">>), def_ldel, def_rdel))
         => status # "done"

\* ---- keep and sections
\* the top-level mapping does not bind the key of the section
AbsentKey == ~HasKey(data.v, template[2][2])

\* C18: keep changes nothing for sections: on a key that is absent a section
\* renders nothing and an inverted section renders its body, with keep set as
\* without it.
C18_KeepLeavesSections ==
  /\ (PlainSection("section") /\ AbsentKey /\ status = "done")
       => result = template[1][2] \o template[5][2]
  /\ (PlainSection("inverted section") /\ AbsentKey /\ status = "done")
       => result = template[1][2] \o template[3][2] \o template[5][2]

====
